---- MODULE Spec2Model ----
(***************************************************************************)
(* A model of the three command-line programs of the repository:           *)
(*   git-fix-commits.py   commit-message corrector and history rewriter    *)
(*   music-diff.py        folder comparison                                *)
(*   monthly-activity.py  monthly aggregation of timeline.csv              *)
(* Text is modelled as a sequence of one-character strings, so that the    *)
(* string operations of the programs (split, strip, replace, lower, the    *)
(* phrase patterns, the shell quoting) are computed and not assumed.       *)
(***************************************************************************)
EXTENDS Integers, Sequences, FiniteSets, TLC

VARIABLES
    program,        \* the program that runs
    pc,             \* position of the running program
    \* ---- git-fix-commits.py: main / process_repository / rewrite_history
    argc,           \* len(sys.argv)
    pathExists,     \* base_path.exists()
    exitStatus,     \* -1 while running, else the process exit status
    repos,          \* number of repositories returned by find_git_repos
    ri,             \* index of the repository being / last processed
    results,        \* main: results
    result,         \* the value process_repository returned, not yet appended
    seen,           \* commits read from the repositories so far
    dirty,          \* current repository: git status --porcelain is non-empty
    commits,        \* current repository: raw commit messages, oldest first
    changes,        \* preview_changes' result for the current repository
    idx,            \* rewrite_history: 1-based index into changes
    commit_changes, \* rewrite_history: approved (hash, original, new)
    pending,        \* get_user_choice_for_commit: edited text awaiting confirm
    decisions,      \* the action returned for each prompted change
    prompted,       \* an input() prompt was shown for the current repository
    gitlog,         \* git commands run on the current repository, in order
    history,        \* raw commit messages of the repository after the run
    scriptFile,     \* "none" | "present" | "removed": the temporary filter
    answer,         \* the answer read at the last prompt (choice, confirm or
                    \* final_confirm), NoAnswer once rewrite_history has
                    \* returned from the final confirmation
    \* ---- music-diff.py
    folder1, folder2,              \* the two folder arguments (environment)
    files1, files2,                \* keys of the two file maps
    only_in_1, only_in_2, in_both, \* compare_folders' three sets
    \* ---- monthly-activity.py
    rows,           \* the CSV rows still to be read
    nread,          \* number of rows consumed
    monthly_data,   \* bucket key -> bucket
    \* ---- spell_check_message harness
    message,        \* the input message
    rawLang,        \* what langdetect.detect answers ("error" = it raises)
    subs,           \* phrase substitutions made on message: (matched, inserted)
    out1,           \* spell_check_message(message)
    out2            \* spell_check_message(out1)

gitVars == <<program, pc, argc, pathExists, exitStatus, repos, ri, results, result, seen, dirty,
             commits, changes, idx, commit_changes, pending, decisions,
             prompted, gitlog, history, scriptFile, answer>>
\* The variables of git-fix-commits.py that music-diff.py does not have
gitOnlyVars == <<pathExists, repos, ri, results, result, seen, dirty, commits, changes, idx,
                 commit_changes, pending, decisions, prompted, gitlog, history,
                 scriptFile, answer>>
diffVars == <<folder1, folder2, files1, files2, only_in_1, only_in_2, in_both>>
timeVars == <<rows, nread, monthly_data>>
spellVars == <<message, rawLang, subs, out1, out2>>
vars == <<gitVars, diffVars, timeVars, spellVars>>

(***************************************************************************)
(* Characters and Python's str operations                                  *)
(***************************************************************************)
LowerAlpha ==
    <<"a","b","c","d","e","f","g","h","i","j","k","l","m",
      "n","o","p","q","r","s","t","u","v","w","x","y","z">>
UpperAlpha ==
    <<"A","B","C","D","E","F","G","H","I","J","K","L","M",
      "N","O","P","Q","R","S","T","U","V","W","X","Y","Z">>
Digits == {"0","1","2","3","4","5","6","7","8","9"}

LowerSet == {LowerAlpha[i] : i \in 1..26}
UpperSet == {UpperAlpha[i] : i \in 1..26}
LowerOf == [c \in UpperSet |-> LowerAlpha[CHOOSE i \in 1..26 : UpperAlpha[i] = c]]
UpperOf == [c \in LowerSet |-> UpperAlpha[CHOOSE i \in 1..26 : LowerAlpha[i] = c]]
\* str.islower() / str.isupper() / str.lower() / str.upper() of one character
IsLowerCh(c) == c \in LowerSet
IsUpperCh(c) == c \in UpperSet
ToLowerCh(c) == IF c \in UpperSet THEN LowerOf[c] ELSE c
ToUpperCh(c) == IF c \in LowerSet THEN UpperOf[c] ELSE c

\* str.lower()
StrLower(s) == [i \in 1..Len(s) |-> ToLowerCh(s[i])]
\* str.capitalize() that leaves the text as it is
Capitalize_Unchanged(s) == s
\* str.capitalize(): first character upper-cased, the rest lower-cased
Capitalize(s) ==
    IF s = <<>> THEN s ELSE <<ToUpperCh(s[1])>> \o StrLower(Tail(s))
\* str.isupper(): at least one cased character and no lower-case one
StrIsUpper(s) ==
    /\ \E i \in 1..Len(s) : IsUpperCh(s[i])
    /\ \A i \in 1..Len(s) : ~IsLowerCh(s[i])
\* str.strip(chars)
Strip(s, chars) ==
    LET keep == {i \in 1..Len(s) : s[i] \notin chars}
    IN  IF keep = {} THEN <<>>
        ELSE SubSeq(s, CHOOSE i \in keep : \A j \in keep : i <= j,
                       CHOOSE i \in keep : \A j \in keep : i >= j)
\* s[i:i+len(p)] == p
MatchAt(s, p, i) ==
    /\ i + Len(p) - 1 <= Len(s)
    /\ \A k \in 1..Len(p) : s[i + k - 1] = p[k]
\* str.replace(old, new) for a non-empty old: every non-overlapping
\* occurrence, left to right
RECURSIVE ReplaceFrom(_, _, _, _)
ReplaceFrom(s, old, new, i) ==
    IF i > Len(s) THEN <<>>
    ELSE IF MatchAt(s, old, i) THEN new \o ReplaceFrom(s, old, new, i + Len(old))
    ELSE <<s[i]>> \o ReplaceFrom(s, old, new, i + 1)
Replace(s, old, new) == ReplaceFrom(s, old, new, 1)

Whitespace == {" ", "\t", "\n"}
\* str.split(): split on runs of whitespace, no empty strings
RECURSIVE SplitFrom(_, _, _)
SplitFrom(s, i, cur) ==
    IF i > Len(s) THEN (IF cur = <<>> THEN <<>> ELSE <<cur>>)
    ELSE IF s[i] \in Whitespace
         THEN (IF cur = <<>> THEN <<>> ELSE <<cur>>) \o SplitFrom(s, i + 1, <<>>)
         ELSE SplitFrom(s, i + 1, Append(cur, s[i]))
Split(s) == SplitFrom(s, 1, <<>>)
\* ' '.join(words)
RECURSIVE Join(_)
Join(words) ==
    IF words = <<>> THEN <<>>
    ELSE IF Len(words) = 1 THEN words[1]
    ELSE words[1] \o <<" ">> \o Join(Tail(words))

(***************************************************************************)
(* git-fix-commits.py: detect_language and spell_check_message             *)
(***************************************************************************)
\* What langdetect.detect can answer; "error" stands for a raised exception.
RawLangs == {"en", "de", "fr", "error"}
detect_language(raw) == IF raw = "de" THEN "de" ELSE "en"

phrase_corrections_en == <<
    [pattern |-> <<"b","a","c","h","e","l","o","r"," ","t","h","e","s","i","s">>,
     replacement |-> <<"b","a","c","h","e","l","o","r","'","s"," ","t","h","e","s","i","s">>],
    [pattern |-> <<"m","a","s","t","e","r"," ","t","h","e","s","i","s">>,
     replacement |-> <<"m","a","s","t","e","r","'","s"," ","t","h","e","s","i","s">>],
    [pattern |-> <<"b","a","c","h","e","l","o","r"," ","t","h","e","s","e","s">>,
     replacement |-> <<"b","a","c","h","e","l","o","r","'","s"," ","t","h","e","s","e","s">>],
    [pattern |-> <<"m","a","s","t","e","r"," ","t","h","e","s","e","s">>,
     replacement |-> <<"m","a","s","t","e","r","'","s"," ","t","h","e","s","e","s">>],
    [pattern |-> <<"d","o","c","t","o","r"," ","t","h","e","s","i","s">>,
     replacement |-> <<"d","o","c","t","o","r","a","l"," ","t","h","e","s","i","s">>] >>
phrase_corrections_de == <<
    [pattern |-> <<"B","a","c","h","e","l","o","r"," ","T","h","e","s","i","s">>,
     replacement |-> <<"B","a","c","h","e","l","o","r","a","r","b","e","i","t">>],
    [pattern |-> <<"M","a","s","t","e","r"," ","T","h","e","s","i","s">>,
     replacement |-> <<"M","a","s","t","e","r","a","r","b","e","i","t">>],
    [pattern |-> <<"b","a","c","h","e","l","o","r"," ","t","h","e","s","i","s">>,
     replacement |-> <<"B","a","c","h","e","l","o","r","a","r","b","e","i","t">>],
    [pattern |-> <<"m","a","s","t","e","r"," ","t","h","e","s","i","s">>,
     replacement |-> <<"M","a","s","t","e","r","a","r","b","e","i","t">>] >>
phrase_corrections(lang) ==
    IF lang = "de" THEN phrase_corrections_de ELSE phrase_corrections_en

\* A character the regular expression class \w matches
IsWordCh(c) == IsLowerCh(c) \/ IsUpperCh(c) \/ c \in Digits \/ c = "_"
\* re.search(r'\b<phrase>\b', text, flags=re.IGNORECASE): the start of the
\* leftmost match, 0 when there is none.  Every phrase starts and ends with a
\* letter, so \b asks for a non-word character (or the end) on either side.
PhraseMatches(text, phrase, i) ==
    /\ i + Len(phrase) - 1 <= Len(text)
    /\ StrLower(SubSeq(text, i, i + Len(phrase) - 1)) = StrLower(phrase)
    /\ (i = 1 \/ ~IsWordCh(text[i - 1]))
    /\ (i + Len(phrase) > Len(text) \/ ~IsWordCh(text[i + Len(phrase)]))
re_search(phrase, text) ==
    LET hits == {i \in 1..Len(text) : PhraseMatches(text, phrase, i)}
    IN  IF hits = {} THEN 0 ELSE CHOOSE i \in hits : \A j \in hits : i <= j
\* The replacement the loop body of lines 151-159 inserts for a matched span
ReplacementFor(lang, matched_text, replacement) ==
    IF lang = "de" /\ IsUpperCh(matched_text[1])
    THEN <<ToUpperCh(replacement[1])>> \o Tail(replacement)
    ELSE IF lang = "en" /\ IsUpperCh(matched_text[1])
    THEN <<ToUpperCh(replacement[1])>> \o Tail(replacement)
    ELSE replacement
\* The phrase loop from its k-th pattern on.  The result carries the text and
\* a log of the substitutions made: (matched span, inserted text).
RECURSIVE ApplyPhrases(_, _, _, _)
ApplyPhrases(lang, text, k, log) ==
    IF k > Len(phrase_corrections(lang)) THEN [text |-> text, log |-> log]
    ELSE LET p == phrase_corrections(lang)[k]
             i == re_search(p.pattern, text)
         IN  IF i = 0 THEN ApplyPhrases(lang, text, k + 1, log)
             ELSE LET matched_text == SubSeq(text, i, i + Len(p.pattern) - 1)
                      ins == ReplacementFor(lang, matched_text, p.replacement)
                      corrected == SubSeq(text, 1, i - 1) \o ins
                                   \o SubSeq(text, i + Len(p.pattern), Len(text))
                  IN  ApplyPhrases(lang, corrected, k + 1,
                          Append(log, [matched |-> matched_text, inserted |-> ins]))

\* lowercase_words_en
lowercase_words_en == {
    <<"i","n","s","i","g","h","t","s">>, <<"s","c","r","i","p","t">>,
    <<"s","c","r","i","p","t","s">>, <<"f","i","l","e">>, <<"f","i","l","e","s">>,
    <<"f","u","n","c","t","i","o","n">>, <<"f","u","n","c","t","i","o","n","s">>,
    <<"m","e","t","h","o","d">>, <<"m","e","t","h","o","d","s">>, <<"c","l","a","s","s">>,
    <<"c","l","a","s","s","e","s">>, <<"m","o","d","u","l","e">>, <<"m","o","d","u","l","e","s">>,
    <<"p","a","c","k","a","g","e">>, <<"p","a","c","k","a","g","e","s">>,
    <<"l","i","b","r","a","r","y">>, <<"l","i","b","r","a","r","i","e","s">>,
    <<"f","r","a","m","e","w","o","r","k">>, <<"t","o","o","l">>, <<"t","o","o","l","s">>,
    <<"c","o","d","e">>, <<"d","o","c","u","m","e","n","t","a","t","i","o","n">>,
    <<"r","e","a","d","m","e">>, <<"l","i","c","e","n","s","e">>,
    <<"c","o","n","f","i","g","u","r","a","t","i","o","n">>, <<"s","e","t","t","i","n","g","s">>,
    <<"o","p","t","i","o","n","s">>, <<"f","e","a","t","u","r","e">>,
    <<"f","e","a","t","u","r","e","s">>, <<"b","u","g">>, <<"b","u","g","s">>,
    <<"i","s","s","u","e">>, <<"i","s","s","u","e","s">>, <<"t","e","s","t">>,
    <<"t","e","s","t","s">>, <<"d","a","t","a","b","a","s","e">>, <<"s","e","r","v","e","r">>,
    <<"c","l","i","e","n","t">>, <<"a","p","i">>, <<"i","n","t","e","r","f","a","c","e">>,
    <<"c","o","m","p","o","n","e","n","t">>, <<"c","o","m","p","o","n","e","n","t","s">>,
    <<"s","e","r","v","i","c","e">>, <<"s","e","r","v","i","c","e","s">>,
    <<"a","p","p","l","i","c","a","t","i","o","n">>,
    <<"a","p","p","l","i","c","a","t","i","o","n","s">>, <<"s","y","s","t","e","m">>,
    <<"s","y","s","t","e","m","s">>, <<"v","e","r","s","i","o","n">>,
    <<"r","e","l","e","a","s","e">>, <<"u","p","d","a","t","e">>, <<"u","p","d","a","t","e","s">>,
    <<"c","h","a","n","g","e">>, <<"c","h","a","n","g","e","s">>, <<"f","i","x">>,
    <<"f","i","x","e","s">>, <<"r","e","f","a","c","t","o","r">>,
    <<"r","e","f","a","c","t","o","r","i","n","g">>,
    <<"o","p","t","i","m","i","z","a","t","i","o","n">>,
    <<"p","e","r","f","o","r","m","a","n","c","e">>, <<"s","e","c","u","r","i","t","y">>,
    <<"s","t","y","l","e">>, <<"f","o","r","m","a","t","t","i","n","g">>,
    <<"d","e","p","e","n","d","e","n","c","y">>,
    <<"d","e","p","e","n","d","e","n","c","i","e","s">>, <<"b","u","i","l","d">>,
    <<"d","e","p","l","o","y","m","e","n","t">>, <<"t","e","s","t","i","n","g">>,
    <<"i","m","p","l","e","m","e","n","t","a","t","i","o","n">>, <<"d","e","s","i","g","n">>,
    <<"a","r","c","h","i","t","e","c","t","u","r","e">>, <<"s","t","r","u","c","t","u","r","e">>,
    <<"l","o","g","i","c">>, <<"a","l","g","o","r","i","t","h","m">>, <<"d","a","t","a">>,
    <<"m","o","d","e","l">>, <<"m","o","d","e","l","s">>, <<"v","i","e","w">>,
    <<"v","i","e","w","s">>, <<"c","o","n","t","r","o","l","l","e","r">>,
    <<"c","o","n","t","r","o","l","l","e","r","s">>, <<"r","e","p","o","s","i","t","o","r","y">>,
    <<"r","e","p","o","s","i","t","o","r","i","e","s">>, <<"f","o","l","d","e","r">>,
    <<"f","o","l","d","e","r","s">>, <<"d","i","r","e","c","t","o","r","y">>,
    <<"d","i","r","e","c","t","o","r","i","e","s">>, <<"t","h","e","s","i","s">>,
    <<"t","h","e","s","e","s">>, <<"r","e","f","e","r","e","n","c","e","s">>,
    <<"r","e","f","e","r","e","n","c","e">>, <<"e","d","u","c","a","t","i","o","n">>,
    <<"s","u","b","j","e","c","t">>
}

\* capitalized_nouns_de
capitalized_nouns_de == {
    <<"d","a","t","e","i">>, <<"d","a","t","e","i","e","n">>, <<"o","r","d","n","e","r">>,
    <<"v","e","r","z","e","i","c","h","n","i","s">>,
    <<"v","e","r","z","e","i","c","h","n","i","s","s","e">>, <<"f","u","n","k","t","i","o","n">>,
    <<"f","u","n","k","t","i","o","n","e","n">>, <<"m","e","t","h","o","d","e">>,
    <<"m","e","t","h","o","d","e","n">>, <<"k","l","a","s","s","e">>,
    <<"k","l","a","s","s","e","n">>, <<"m","o","d","u","l">>, <<"m","o","d","u","l","e">>,
    <<"p","a","k","e","t">>, <<"p","a","k","e","t","e">>,
    <<"b","i","b","l","i","o","t","h","e","k">>,
    <<"b","i","b","l","i","o","t","h","e","k","e","n">>, <<"w","e","r","k","z","e","u","g">>,
    <<"w","e","r","k","z","e","u","g","e">>, <<"c","o","d","e">>,
    <<"d","o","k","u","m","e","n","t","a","t","i","o","n">>,
    <<"k","o","n","f","i","g","u","r","a","t","i","o","n">>,
    <<"e","i","n","s","t","e","l","l","u","n","g","e","n">>, <<"o","p","t","i","o","n","e","n">>,
    <<"f","e","a","t","u","r","e">>, <<"f","e","a","t","u","r","e","s">>,
    <<"f","e","h","l","e","r">>, <<"p","r","o","b","l","e","m">>,
    <<"p","r","o","b","l","e","m","e">>, <<"t","e","s","t">>, <<"t","e","s","t","s">>,
    <<"d","a","t","e","n","b","a","n","k">>, <<"s","e","r","v","e","r">>,
    <<"c","l","i","e","n","t">>, <<"s","c","h","n","i","t","t","s","t","e","l","l","e">>,
    <<"k","o","m","p","o","n","e","n","t","e">>, <<"k","o","m","p","o","n","e","n","t","e","n">>,
    <<"d","i","e","n","s","t">>, <<"d","i","e","n","s","t","e">>,
    <<"a","n","w","e","n","d","u","n","g">>, <<"a","n","w","e","n","d","u","n","g","e","n">>,
    <<"s","y","s","t","e","m">>, <<"s","y","s","t","e","m","e">>, <<"v","e","r","s","i","o","n">>,
    <<"r","e","l","e","a","s","e">>, <<"a","k","t","u","a","l","i","s","i","e","r","u","n","g">>,
    <<"ä","n","d","e","r","u","n","g">>, <<"ä","n","d","e","r","u","n","g","e","n">>,
    <<"b","u","g","f","i","x">>, <<"r","e","f","a","c","t","o","r","i","n","g">>,
    <<"o","p","t","i","m","i","e","r","u","n","g">>,
    <<"p","e","r","f","o","r","m","a","n","c","e">>, <<"s","i","c","h","e","r","h","e","i","t">>,
    <<"s","t","i","l">>, <<"f","o","r","m","a","t","i","e","r","u","n","g">>,
    <<"a","b","h","ä","n","g","i","g","k","e","i","t">>,
    <<"a","b","h","ä","n","g","i","g","k","e","i","t","e","n">>, <<"b","u","i","l","d">>,
    <<"d","e","p","l","o","y","m","e","n","t">>,
    <<"i","m","p","l","e","m","e","n","t","i","e","r","u","n","g">>, <<"d","e","s","i","g","n">>,
    <<"a","r","c","h","i","t","e","k","t","u","r">>, <<"s","t","r","u","k","t","u","r">>,
    <<"l","o","g","i","k">>, <<"a","l","g","o","r","i","t","h","m","u","s">>,
    <<"d","a","t","e","n">>, <<"m","o","d","e","l","l">>, <<"m","o","d","e","l","l","e">>,
    <<"a","n","s","i","c","h","t">>, <<"a","n","s","i","c","h","t","e","n">>,
    <<"c","o","n","t","r","o","l","l","e","r">>, <<"r","e","p","o","s","i","t","o","r","y">>,
    <<"r","e","p","o","s","i","t","o","r","i","e","s">>, <<"t","h","e","s","i","s">>,
    <<"a","r","b","e","i","t">>, <<"a","b","s","c","h","l","u","s","s","a","r","b","e","i","t">>,
    <<"b","a","c","h","e","l","o","r","a","r","b","e","i","t">>,
    <<"m","a","s","t","e","r","a","r","b","e","i","t">>,
    <<"r","e","f","e","r","e","n","z","e","n">>, <<"r","e","f","e","r","e","n","z">>,
    <<"b","i","l","d","u","n","g">>, <<"a","u","s","b","i","l","d","u","n","g">>,
    <<"s","t","u","d","i","u","m">>, <<"f","a","c","h">>, <<"f","ä","c","h","e","r">>,
    <<"e","i","n","b","l","i","c","k">>, <<"e","i","n","b","l","i","c","k","e">>,
    <<"s","k","r","i","p","t">>, <<"s","k","r","i","p","t","e">>, <<"s","t","ä","r","k","e">>,
    <<"s","t","ä","r","k","e","n">>, <<"l","e","b","e","n","s","l","a","u","f">>,
    <<"r","e","a","d","m","e">>, <<"i","n","s","i","g","h","t","s">>, <<"s","c","r","i","p","t">>
}

\* always_capitalized
always_capitalized == {
    <<"p","y","t","h","o","n">>, <<"j","a","v","a">>, <<"j","a","v","a","s","c","r","i","p","t">>,
    <<"t","y","p","e","s","c","r","i","p","t">>, <<"g","i","t","h","u","b">>,
    <<"g","i","t","l","a","b">>, <<"d","o","c","k","e","r">>,
    <<"k","u","b","e","r","n","e","t","e","s">>, <<"r","e","a","c","t">>, <<"v","u","e">>,
    <<"a","n","g","u","l","a","r">>, <<"n","o","d","e">>, <<"s","q","l">>, <<"h","t","m","l">>,
    <<"c","s","s">>, <<"j","s","o","n">>, <<"x","m","l">>, <<"y","a","m","l">>, <<"a","p","i">>,
    <<"r","e","s","t">>, <<"g","r","a","p","h","q","l">>, <<"a","w","s">>, <<"a","z","u","r","e">>,
    <<"g","c","p">>, <<"l","i","n","u","x">>, <<"w","i","n","d","o","w","s">>,
    <<"m","a","c","o","s">>, <<"a","n","d","r","o","i","d">>, <<"i","o","s">>, <<"g","i","t">>,
    <<"n","p","m">>, <<"y","a","r","n">>, <<"w","e","b","p","a","c","k">>, <<"b","a","b","e","l">>,
    <<"e","s","l","i","n","t">>, <<"p","r","e","t","t","i","e","r">>, <<"j","e","s","t">>,
    <<"m","o","c","h","a">>, <<"r","e","d","u","x">>, <<"m","o","n","g","o","d","b">>,
    <<"p","o","s","t","g","r","e","s","q","l">>, <<"m","y","s","q","l">>, <<"r","e","d","i","s">>,
    <<"e","l","a","s","t","i","c","s","e","a","r","c","h">>, <<"k","a","f","k","a">>,
    <<"j","e","n","k","i","n","s">>, <<"t","r","a","v","i","s">>,
    <<"c","i","r","c","l","e","c","i">>, <<"h","e","r","o","k","u">>,
    <<"n","e","t","l","i","f","y">>, <<"v","e","r","c","e","l">>, <<"g","a","l","l","u","p">>
}

\* The model's spelling dictionaries (pyspellchecker's word lists are data of
\* an external library): the words `in spell` holds for, and spell.correction
\* for the unknown words that have a candidate (no entry = no correction).
KnownWords(lang) ==
    IF lang = "de"
    THEN {<<"d","i","e">>, <<"n","e","u">>, <<"f","i","x">>, <<"a","d","d">>} \cup capitalized_nouns_de
    ELSE {<<"f","i","x">>, <<"a","d","d">>, <<"t","h","e">>, <<"m","a","s","t","e","r">>,
          <<"d","i","e">>, <<"n","e","w">>} \cup lowercase_words_en
Corrections(lang) ==
    IF lang = "de"
    THEN { <<<<"d","a","t","i","e">>, <<"d","a","t","e","i">>>>,
           <<<<"n","e","w">>, <<"n","e","u">>>> }
    ELSE { <<<<"t","e","h">>, <<"t","h","e">>>>,
           <<<<"p","y","t","h","n">>, <<"p","y","t","h","o","n">>>>,
           <<<<"n","e","u">>, <<"n","e","w">>>> }
NoCorrection == <<"<none>">>
SpellCorrection(lang, w) ==
    IF \E e \in Corrections(lang) : e[1] = w
    THEN (CHOOSE e \in Corrections(lang) : e[1] = w)[2]
    ELSE NoCorrection

SpecialChars == {"/", ":", "@", "#", "_", "-"}
StripChars == {".", ",", "!", "?", ";", ":", "\"", "'", "(", ")", "[", "]", "{", "}"}

\* The capitalization the spelling branch gives a correction (lines 280-294);
\* i is the 0-based token index.
CaseOfCorrection(lang, i, clean_word, correction) ==
    IF lang = "de"
    THEN IF i > 0 /\ IsUpperCh(correction[1]) THEN Capitalize(correction)
         ELSE IF IsUpperCh(clean_word[1]) THEN Capitalize(correction)
         ELSE StrLower(correction)
    ELSE IF IsUpperCh(clean_word[1]) /\ i > 0 THEN StrLower(correction)
         ELSE IF IsUpperCh(clean_word[1]) THEN Capitalize(correction)
         ELSE correction
\* The body of the per-token loop (lines 217-301): the token appended to
\* corrected_words for token `word` at 0-based index i.
CorrectWord(lang, i, word) ==
    IF \E k \in 1..Len(word) : word[k] \in SpecialChars THEN word
    ELSE IF StrIsUpper(word) /\ Len(word) > 1 THEN word
    ELSE LET clean_word == Strip(word, StripChars)
             word_lower == StrLower(clean_word)
         IN
         IF clean_word = <<>> THEN word
         ELSE IF i = 0
         THEN IF IsLowerCh(clean_word[1])
              THEN Replace(word, clean_word, Capitalize(clean_word))
              ELSE word
         ELSE IF lang = "de" /\ word_lower \in capitalized_nouns_de
         THEN IF IsLowerCh(clean_word[1])
              THEN Replace(word, clean_word, Capitalize(clean_word))
              ELSE word
         ELSE IF lang # "de" /\ word_lower \in lowercase_words_en /\ IsUpperCh(clean_word[1])
         THEN IF word_lower \notin always_capitalized
              THEN Replace(word, clean_word, word_lower)
              ELSE word
         ELSE IF word_lower \in always_capitalized
         THEN IF clean_word # Capitalize(word_lower)
              THEN Replace(word, clean_word, Capitalize(word_lower))
              ELSE word
         ELSE IF word_lower \notin KnownWords(lang)
         THEN LET correction == SpellCorrection(lang, word_lower)
              IN  IF correction # NoCorrection /\ correction # word_lower
                  THEN Replace(word, clean_word,
                               CaseOfCorrection(lang, i, clean_word, correction))
                  ELSE word
         ELSE word
\* corrected_words for the token list `words`
CorrectWords(lang, words) ==
    [k \in 1..Len(words) |-> CorrectWord(lang, k - 1, words[k])]
\* spell_check_message(message, spell_en, spell_de), with raw the detector's
\* answer for message
spell_check_message(raw, msg) ==
    LET lang == detect_language(raw)
        corrected == ApplyPhrases(lang, msg, 1, <<>>).text
    IN  Join(CorrectWords(lang, Split(corrected)))

(***************************************************************************)
(* git-fix-commits.py: the repository, git log and the message filter      *)
(***************************************************************************)
MaxEntries == 2   \* directory entries below the base path
MaxCommits == 2   \* commits read in one run, over all repositories

\* Raw commit messages as git stores them: a subject line, an optional body
\* after a blank line, a final newline.
RawMessages == {
    <<"f","i","x"," ","B","u","g","\n">>,
    <<"f","i","x"," ","B","u","g","\n","\n","m","o","r","e","\n">>,
    <<"F","i","x"," ","b","u","g","\n">>,
    <<"a","d","d"," ","$","x","\n">> }
RECURSIVE SeqsUpTo(_, _)
SeqsUpTo(S, n) ==
    IF n = 0 THEN {<<>>}
    ELSE LET shorter == SeqsUpTo(S, n - 1)
         IN  shorter \cup {Append(s, x) : s \in {t \in shorter : Len(t) = n - 1}, x \in S}
CommitLists == SeqsUpTo(RawMessages, MaxCommits)

\* The hash of the k-th commit (oldest first) of the current repository
HashOf(k) == <<"c", ToString(k)>>
\* %s: the subject is the first line of the raw message
Subject(raw) ==
    LET nl == {i \in 1..Len(raw) : raw[i] = "\n"}
    IN  IF nl = {} THEN raw
        ELSE SubSeq(raw, 1, (CHOOSE i \in nl : \A j \in nl : i <= j) - 1)
\* stdout of `git log --format=%H|||%s HEAD`: one line per commit, newest first
RECURSIVE GitLogOutput(_, _)
GitLogOutput(cs, k) ==
    IF k = 0 THEN <<>>
    ELSE HashOf(k) \o <<"|","|","|">> \o Subject(cs[k]) \o <<"\n">> \o GitLogOutput(cs, k - 1)
\* run_git_command: result.stdout.strip()
run_git_command(stdout) == Strip(stdout, Whitespace)
\* str.split('\n')
RECURSIVE SplitLines(_, _, _)
SplitLines(s, i, cur) ==
    IF i > Len(s) THEN <<cur>>
    ELSE IF s[i] = "\n" THEN <<cur>> \o SplitLines(s, i + 1, <<>>)
    ELSE SplitLines(s, i + 1, Append(cur, s[i]))
\* line.split('|||', 1)
SplitOnce(line) ==
    LET sep == <<"|","|","|">>
        at == {i \in 1..Len(line) : MatchAt(line, sep, i)}
    IN  IF at = {} THEN <<line>>
        ELSE LET i == CHOOSE i \in at : \A j \in at : i <= j
             IN  <<SubSeq(line, 1, i - 1), SubSeq(line, i + 3, Len(line))>>
Reverse(s) == [i \in 1..Len(s) |-> s[Len(s) + 1 - i]]
\* get_commit_list(repo_path): (hash, subject) pairs, oldest first
get_commit_list(cs) ==
    LET output == run_git_command(GitLogOutput(cs, Len(cs)))
    IN  IF output = <<>> THEN <<>>
        ELSE LET lines == SelectSeq(SplitLines(output, 1, <<>>), LAMBDA l : l # <<>>)
                 hash_msg == [i \in 1..Len(lines) |-> SplitOnce(lines[i])]
             IN  Reverse(SelectSeq(hash_msg, LAMBDA p : Len(p) = 2))
\* preview_changes(commits, spell_en, spell_de): (hash, message, corrected)
\* for every commit whose corrected message differs
preview_changes(raw, cl) ==
    LET all == [i \in 1..Len(cl) |->
                   <<cl[i][1], cl[i][2], spell_check_message(raw, cl[i][2])>>]
    IN  SelectSeq(all, LAMBDA c : c[3] # c[2])

\* The backquote character (a string cannot hold it)
Backtick == "backquote"
\* The escaping of lines 373-374: backslash, double quote, dollar, backquote
ShellEscape(s) ==
    Replace(Replace(Replace(Replace(s, <<"\\">>, <<"\\","\\">>),
                            <<"\"">>, <<"\\","\"">>),
                    <<"$">>, <<"\\","$">>),
            <<Backtick>>, <<"\\",Backtick>>)
\* The case arms of the generated filter script (lines 371-377)
FilterArms(cc) ==
    [k \in 1..Len(cc) |-> [pattern |-> ShellEscape(cc[k][2]),
                           echo |-> ShellEscape(cc[k][3])]]
\* bash: the value of a double-quoted word with the given content.  A
\* backslash quotes $, backquote, double quote and backslash and is literal
\* before anything else; an unquoted
\* $NAME expands to the variable (only MSG is set).
RECURSIVE DoubleQuoted(_, _, _)
DoubleQuoted(s, i, MSG) ==
    IF i > Len(s) THEN <<>>
    ELSE IF s[i] = "\\" /\ i < Len(s) /\ s[i + 1] \in {"$", Backtick, "\"", "\\"}
    THEN <<s[i + 1]>> \o DoubleQuoted(s, i + 2, MSG)
    ELSE IF s[i] = "$" /\ i < Len(s) /\ (IsWordCh(s[i + 1]) /\ s[i + 1] \notin Digits)
    THEN LET stop == {j \in (i + 1)..(Len(s) + 1) : j > Len(s) \/ ~IsWordCh(s[j])}
             e == CHOOSE j \in stop : \A j2 \in stop : j <= j2
         IN  (IF SubSeq(s, i + 1, e - 1) = <<"M","S","G">> THEN MSG ELSE <<>>)
             \o DoubleQuoted(s, e, MSG)
    ELSE <<s[i]>> \o DoubleQuoted(s, i + 1, MSG)
\* MSG="$(cat)": command substitution drops the trailing newlines
RECURSIVE CommandSubst(_)
CommandSubst(text) ==
    IF text # <<>> /\ text[Len(text)] = "\n"
    THEN CommandSubst(SubSeq(text, 1, Len(text) - 1))
    ELSE text
\* The filter script run on one raw commit message: the first arm whose
\* (quoted, hence literal) pattern equals $MSG echoes its text, the default
\* arm echoes $MSG; echo ends its output with a newline.
RECURSIVE RunArms(_, _, _)
RunArms(arms, k, MSG) ==
    IF k > Len(arms) THEN MSG \o <<"\n">>
    ELSE IF DoubleQuoted(arms[k].pattern, 1, MSG) = MSG
    THEN DoubleQuoted(arms[k].echo, 1, MSG) \o <<"\n">>
    ELSE RunArms(arms, k + 1, MSG)
msg_filter(cc, rawmsg) == RunArms(FilterArms(cc), 1, CommandSubst(rawmsg))
\* git filter-branch --msg-filter over every commit
filter_branch(cc, cs) == [k \in 1..Len(cs) |-> msg_filter(cc, cs[k])]

(***************************************************************************)
(* git-fix-commits.py: main, process_repository, rewrite_history           *)
(***************************************************************************)
\* What the user may type at a prompt, before .strip().lower()
TypedAnswers == {
    <<"y">>, <<"Y","e","s"," ">>, <<"s">>, <<"s","k","i","p">>, <<"e">>,
    <<"E","d","i","t">>, <<"a">>, <<"a","b","o","r","t">>, <<"n">>, <<"n","o">>,
    <<" ","Y","E","S">>, <<>> }
Answer(typed) == StrLower(Strip(typed, Whitespace))
\* No answer is held: no input() has returned whose branch is still to be taken
NoAnswer == <<"-">>
\* What the user may type as an edited message: nothing but blanks, the
\* original again, or a new text
TypedEdits(original) == { <<" ">>, original, <<"F","i","x"," ","i","t">> }

\* What a directory entry below the base path can be
EntryKinds == {"repo", "dir", "hidden_repo", "file"}
\* find_git_repos(base_path): the base path itself when it is a repository
\* (named 0), else the entries that are non-hidden directories and
\* repositories (named by their position)
find_git_repos(baseIsRepo, entries) ==
    IF baseIsRepo THEN <<0>>
    ELSE SelectSeq([i \in 1..Len(entries) |-> i], LAMBDA i : entries[i] = "repo")

Result(name, status, reason, n) ==
    [repo |-> name, status |-> status, reason |-> reason, changes |-> n]
NoReason == "-"
NoCount == -1
NoResult == Result(-1, "-", NoReason, NoCount)
\* process_repository returns r to main
ReturnToMain(r) ==
    /\ result' = r
    /\ pc' = "returned"
    /\ idx' = 0
    /\ pending' = <<>>
    /\ UNCHANGED <<results, ri>>
\* rewrite_history returned False: process_repository's result (line 539)
Declined == Result(repos[ri], "skipped", "user declined", NoCount)

\* main_exit without the exit for an empty repository list
main_exit_NoRepoCheck(argv_len, exists, rs) ==
    IF argv_len < 2 THEN 1
    ELSE IF ~exists THEN 1
    ELSE -1
\* main, lines 549-569: the exit status main ends with before it processes
\* anything, -1 when it goes on; rs is what find_git_repos returned
main_exit(argv_len, exists, rs) ==
    IF argv_len < 2 THEN 1
    ELSE IF ~exists THEN 1
    ELSE IF rs = <<>> THEN 1
    ELSE -1
\* main, lines 542-579: argument and path checks, repository discovery
MainStart ==
    /\ pc = "start"
    /\ UNCHANGED <<argc, pathExists, ri, results, result, seen, dirty, commits,
                   changes, idx, commit_changes, pending, decisions, prompted,
                   gitlog, history, scriptFile, answer>>
    /\ \E baseIsRepo \in BOOLEAN, entries \in SeqsUpTo(EntryKinds, MaxEntries) :
          LET found == find_git_repos(baseIsRepo, entries)
              status == main_exit(argc, pathExists, found)
          IN  /\ repos' = IF argc < 2 \/ ~pathExists THEN <<>> ELSE found
              /\ IF status # -1
                 THEN pc' = "exited" /\ exitStatus' = status
                 ELSE pc' = "loop" /\ exitStatus' = exitStatus
    /\ UNCHANGED <<program, diffVars, timeVars, spellVars>>

\* process_repository without the check of the working tree
process_repository_NoCleanCheck(name, d, cl, ch) ==
    IF cl = <<>> THEN Result(name, "skipped", "no commits", NoCount)
    ELSE IF ch = <<>> THEN Result(name, "clean", NoReason, 0)
    ELSE NoResult
\* process_repository, lines 512-531: the result it returns before any
\* prompt, NoResult when it goes on to rewrite_history.  d: the working tree
\* is dirty, cl: get_commit_list's result, ch: preview_changes' result
process_repository(name, d, cl, ch) ==
    IF d THEN Result(name, "skipped", "dirty working tree", NoCount)
    ELSE IF cl = <<>> THEN Result(name, "skipped", "no commits", NoCount)
    ELSE IF ch = <<>> THEN Result(name, "clean", NoReason, 0)
    ELSE NoResult
\* process_repository(repo), lines 503-534, up to its return or to the first
\* prompt of rewrite_history.  The repository's state is read here: whether
\* its working tree is dirty, its commits, and the detector's answer.  The
\* log of a dirty repository is never read, so no commits are drawn for it.
ProcessRepository ==
    /\ pc = "loop" /\ ri <= Len(repos)
    /\ \E d \in BOOLEAN, raw \in {"en", "de"} :
       \E cs \in {l \in CommitLists : seen + Len(l) <= MaxCommits /\ (d => l = <<>>)} :
          LET cl == get_commit_list(cs)
              ch == preview_changes(raw, cl)
          IN  /\ dirty' = d
              /\ commits' = cs
              /\ history' = cs
              /\ seen' = seen + Len(cs)
              /\ LET early == process_repository(repos[ri], d, cl, ch)
                 IN  /\ gitlog' = IF early.reason = "dirty working tree"
                                  THEN <<"status">> ELSE <<"status", "log">>
                     /\ changes' = IF early.status = "skipped" THEN <<>> ELSE ch
                     /\ IF early # NoResult
                        THEN ReturnToMain(early)
                        ELSE /\ pc' = "choice"
                             /\ idx' = 1
                             /\ pending' = <<>>
                             /\ UNCHANGED <<results, ri, result>>
    /\ UNCHANGED <<argc, pathExists, exitStatus, repos, decisions, prompted,
                   commit_changes, scriptFile, answer>>
    /\ UNCHANGED <<program, diffVars, timeVars, spellVars>>

\* AfterChoice with the abort branch lost: an abort is passed over like a skip
AfterChoice_AbortIgnored(action, new_message) ==
    LET original == changes[idx][2]
        cc == IF action = "accept" /\ new_message # original
              THEN Append(commit_changes, <<changes[idx][1], original, new_message>>)
              ELSE commit_changes
    IN  /\ decisions' = Append(decisions, action)
        /\ commit_changes' = cc
        /\ IF idx < Len(changes)
           THEN /\ idx' = idx + 1
                /\ pc' = "choice"
                /\ pending' = <<>>
                /\ UNCHANGED <<results, ri, result>>
           ELSE IF cc = <<>>
           THEN ReturnToMain(Declined)
           ELSE /\ pc' = "final"
                /\ pending' = <<>>
                /\ UNCHANGED <<results, ri, result, idx>>
\* rewrite_history, lines 463-476: what follows the return of
\* get_user_choice_for_commit with (action, new_message)
AfterChoice(action, new_message) ==
    LET original == changes[idx][2]
        cc == IF action = "accept" /\ new_message # original
              THEN Append(commit_changes, <<changes[idx][1], original, new_message>>)
              ELSE commit_changes
    IN  /\ decisions' = Append(decisions, action)
        /\ IF action = "abort"
           THEN /\ commit_changes' = commit_changes
                /\ ReturnToMain(Declined)
           ELSE /\ commit_changes' = cc
                /\ IF idx < Len(changes)
                   THEN /\ idx' = idx + 1
                        /\ pc' = "choice"
                        /\ pending' = <<>>
                        /\ UNCHANGED <<results, ri, result>>
                   ELSE IF cc = <<>>
                   THEN ReturnToMain(Declined)
                   ELSE /\ pc' = "final"
                        /\ pending' = <<>>
                        /\ UNCHANGED <<results, ri, result, idx>>

\* The three input() calls whose answer is stripped and lower-cased: choice
\* (line 339), confirm (line 350) and final_confirm (line 486).  The program
\* blocks in input(); when it returns, the answer is in the local variable and
\* the branch on it has not been taken yet.
ReadAnswer ==
    /\ pc \in {"choice", "confirm", "final"}
    /\ prompted' = TRUE
    /\ \E typed \in TypedAnswers : answer' = Answer(typed)
    /\ pc' = CASE pc = "choice" -> "chosen"
              [] pc = "confirm" -> "confirmed"
              [] pc = "final" -> "answered"
    /\ UNCHANGED <<argc, pathExists, exitStatus, repos, ri, results, result, seen,
                   dirty, commits, changes, idx, pending, commit_changes, decisions,
                   gitlog, history, scriptFile>>
    /\ UNCHANGED <<program, diffVars, timeVars, spellVars>>

\* get_user_choice_for_commit, lines 341-360: the branch on the answer at the
\* choice prompt
UserChoice ==
    /\ pc = "chosen"
    /\ answer' = NoAnswer
    /\ LET choice == answer
       IN  IF choice \in {<<"y">>, <<"y","e","s">>}
           THEN AfterChoice("accept", changes[idx][3])
           ELSE IF choice \in {<<"s">>, <<"s","k","i","p">>}
           THEN AfterChoice("skip", changes[idx][2])
           ELSE IF choice \in {<<"e">>, <<"e","d","i","t">>}
           THEN /\ pc' = "edit"
                /\ UNCHANGED <<results, ri, result, idx, pending, decisions,
                               commit_changes>>
           ELSE IF choice \in {<<"a">>, <<"a","b","o","r","t">>}
           THEN AfterChoice("abort", changes[idx][2])
           ELSE /\ pc' = "choice"
                /\ UNCHANGED <<results, ri, result, idx, pending, decisions,
                               commit_changes>>
    /\ UNCHANGED <<argc, pathExists, exitStatus, repos, seen, dirty, commits,
                   changes, gitlog, history, scriptFile, prompted>>
    /\ UNCHANGED <<program, diffVars, timeVars, spellVars>>

\* lines 346-356: the edited message is typed
UserEdit ==
    /\ pc = "edit"
    /\ prompted' = TRUE
    /\ \E typed \in TypedEdits(changes[idx][2]) :
          LET new_message == Strip(typed, Whitespace)
          IN  IF new_message # <<>>
              THEN pc' = "confirm" /\ pending' = new_message
              ELSE pc' = "choice" /\ pending' = <<>>
    /\ UNCHANGED <<argc, pathExists, exitStatus, repos, ri, results, result, seen,
                   dirty, commits, changes, idx, commit_changes, decisions, gitlog,
                   history, scriptFile, answer>>
    /\ UNCHANGED <<program, diffVars, timeVars, spellVars>>

\* UserConfirmEdit without the test of confirm (line 351): the edited message
\* is applied whatever is answered
UserConfirmEdit_Unconfirmed ==
    /\ pc = "confirmed"
    /\ answer' = NoAnswer
    /\ AfterChoice("accept", pending)
    /\ UNCHANGED <<argc, pathExists, exitStatus, repos, seen, dirty, commits,
                   changes, gitlog, history, scriptFile, prompted>>
    /\ UNCHANGED <<program, diffVars, timeVars, spellVars>>
\* lines 351-354: the edit is confirmed or cancelled
UserConfirmEdit ==
    /\ pc = "confirmed"
    /\ answer' = NoAnswer
    /\ LET confirm == answer
       IN  IF confirm \in {<<"y">>, <<"y","e","s">>}
           THEN AfterChoice("accept", pending)
           ELSE /\ pc' = "choice"
                /\ pending' = <<>>
                /\ UNCHANGED <<results, ri, result, idx, decisions, commit_changes>>
    /\ UNCHANGED <<argc, pathExists, exitStatus, repos, seen, dirty, commits,
                   changes, gitlog, history, scriptFile, prompted>>
    /\ UNCHANGED <<program, diffVars, timeVars, spellVars>>

\* FinalConfirm that takes 'y' for 'yes' as the other prompts do
FinalConfirm_ShortYes ==
    /\ pc = "answered"
    /\ LET final_confirm == answer
       IN  IF final_confirm \notin {<<"y">>, <<"y","e","s">>}
           THEN /\ ReturnToMain(Declined)
                /\ answer' = NoAnswer
           ELSE /\ pc' = "rewrite"
                /\ answer' = final_confirm
                /\ UNCHANGED <<results, ri, result, idx, pending>>
    /\ UNCHANGED <<argc, pathExists, exitStatus, repos, seen, dirty, commits,
                   changes, commit_changes, decisions, gitlog, history, scriptFile,
                   prompted>>
    /\ UNCHANGED <<program, diffVars, timeVars, spellVars>>
\* rewrite_history, lines 487-493: the branch on the final confirmation
FinalConfirm ==
    /\ pc = "answered"
    /\ LET final_confirm == answer
       IN  IF final_confirm # <<"y","e","s">>
           THEN /\ ReturnToMain(Declined)
                /\ answer' = NoAnswer
           ELSE /\ pc' = "rewrite"
                /\ answer' = final_confirm
                /\ UNCHANGED <<results, ri, result, idx, pending>>
    /\ UNCHANGED <<argc, pathExists, exitStatus, repos, seen, dirty, commits,
                   changes, commit_changes, decisions, gitlog, history, scriptFile,
                   prompted>>
    /\ UNCHANGED <<program, diffVars, timeVars, spellVars>>

\* How the run of git filter-branch (lines 394-399) can end: with status 0,
\* with a nonzero status, or with an exception out of subprocess.run (the
\* user interrupts the program)
FilterOutcomes == {"zero", "nonzero", "raised"}
\* What os.unlink(script_path) in the finally clause (lines 438-443) can do:
\* remove the file, or raise, which the bare except swallows
UnlinkOutcomes == {"removed", "present"}
\* rewrite_commands without the return of lines 401-404: the refs are pruned
\* and the storage is compacted whatever status filter-branch returned
rewrite_commands_NoStatusCheck(outcome, pruned) ==
    IF outcome = "raised" THEN <<"filter-branch">>
    ELSE <<"filter-branch", "for-each-ref">>
         \o (IF pruned THEN <<"update-ref -d">> ELSE <<>>)
         \o <<"reflog expire", "gc">>
\* rewrite_commits_with_script, lines 394-434: the git commands it runs, in
\* order.  pruned says whether refs/original/ holds a ref to delete.
rewrite_commands(outcome, pruned) ==
    IF outcome # "zero" THEN <<"filter-branch">>
    ELSE <<"filter-branch", "for-each-ref">>
         \o (IF pruned THEN <<"update-ref -d">> ELSE <<>>)
         \o <<"reflog expire", "gc">>
\* rewrite_commits_with_script (lines 363-443) and what rewrite_history and
\* process_repository make of its result (lines 493-500, 536-539).  git
\* filter-branch rewrites all or nothing.  An exception leaves the function
\* through the finally clause and ends the program, no caller handles it:
\* what is left is the repository and the script file, the variables of the
\* program are gone.
RewriteCommits ==
    /\ pc = "rewrite"
    /\ \E outcome \in FilterOutcomes, unlinked \in UnlinkOutcomes :
          LET rewritten == IF outcome = "zero"
                           THEN filter_branch(commit_changes, commits)
                           ELSE history
          IN  /\ history' = rewritten
              /\ gitlog' = gitlog \o rewrite_commands(outcome, rewritten # commits)
              /\ scriptFile' = unlinked
              /\ IF outcome = "zero"
                 THEN /\ ReturnToMain(Result(repos[ri], "corrected", NoReason, Len(changes)))
                      /\ UNCHANGED exitStatus
                 ELSE IF outcome = "nonzero"
                 THEN /\ ReturnToMain(Declined)
                      /\ UNCHANGED exitStatus
                 ELSE /\ pc' = "crashed"
                      /\ exitStatus' = 1
                      /\ results' = <<>> /\ result' = NoResult /\ idx' = 0
                      /\ pending' = <<>>
                      /\ UNCHANGED ri
              /\ IF outcome = "raised"
                 THEN /\ changes' = <<>> /\ commit_changes' = <<>>
                      /\ decisions' = <<>> /\ answer' = NoAnswer
                 ELSE UNCHANGED <<changes, commit_changes, decisions, answer>>
    /\ UNCHANGED <<argc, pathExists, repos, seen, dirty, commits, prompted>>
    /\ UNCHANGED <<program, diffVars, timeVars, spellVars>>

\* main, line 585: results.append(result); the loop turns to the next
\* repository, and so does the model's view of the repository
AppendResult ==
    /\ pc = "returned"
    /\ results' = Append(results, result)
    /\ ri' = ri + 1
    /\ pc' = "loop"
    /\ result' = NoResult
    /\ dirty' = FALSE /\ commits' = <<>> /\ history' = <<>> /\ changes' = <<>>
    /\ commit_changes' = <<>> /\ decisions' = <<>> /\ prompted' = FALSE
    /\ gitlog' = <<>> /\ scriptFile' = "none" /\ answer' = NoAnswer
    /\ UNCHANGED <<argc, pathExists, exitStatus, repos, seen, idx, pending>>
    /\ UNCHANGED <<program, diffVars, timeVars, spellVars>>

\* main, lines 587-624: every repository is processed, the summary is printed
Summary ==
    /\ pc = "loop" /\ ri > Len(repos)
    /\ pc' = "done"
    /\ exitStatus' = 0
    /\ UNCHANGED <<argc, pathExists, repos, ri, results, result, seen, dirty, commits,
                   changes, idx, commit_changes, pending, decisions, prompted,
                   gitlog, history, scriptFile, answer>>
    /\ UNCHANGED <<program, diffVars, timeVars, spellVars>>

GitInit ==
    /\ program = "git-fix-commits"
    /\ pc = "start" /\ argc \in 1..2 /\ pathExists \in BOOLEAN /\ exitStatus = -1
    /\ repos = <<>> /\ ri = 1 /\ results = <<>> /\ result = NoResult /\ seen = 0
    /\ dirty = FALSE /\ commits = <<>>
    /\ changes = <<>> /\ idx = 0 /\ commit_changes = <<>> /\ pending = <<>>
    /\ decisions = <<>> /\ prompted = FALSE /\ gitlog = <<>> /\ history = <<>>
    /\ scriptFile = "none" /\ answer = NoAnswer

(***************************************************************************)
(* music-diff.py                                                           *)
(***************************************************************************)
FolderArgs == {
    <<"/","h","o","m","e","/","u","/","M","u","s","i","c">>,
    <<"m","t","p",":","/","/","p","h","o","n","e","/","I","n","t","e","r","n","a","l",
      " ","s","t","o","r","a","g","e","/","M","u","s","i","c">>,
    <<"a","f","c",":","/","/","d","e","v">> }
\* The files a scanned directory may hold: the path relative to the music
\* folder, the path relative to the root of the device mount, the suffix
Files == {
    [name |-> "a.mp3", deep |-> "Internal storage/Music/a.mp3", suffix |-> <<".","m","p","3">>],
    [name |-> "b.MP3", deep |-> "Internal storage/Music/b.MP3", suffix |-> <<".","M","P","3">>],
    [name |-> "c.txt", deep |-> "Internal storage/Music/c.txt", suffix |-> <<".","t","x","t">>],
    [name |-> "d/e.flac", deep |-> "Internal storage/Music/d/e.flac",
     suffix |-> <<".","f","l","a","c">>] }
extensions == {
    <<".","m","p","3">>, <<".","f","l","a","c">>, <<".","w","a","v">>, <<".","m","4","a">>,
    <<".","a","a","c">>, <<".","o","g","g">>, <<".","w","m","a">> }
\* What /run/user/UID/gvfs can look like to convert_mtp_to_local
GvfsStates == {"no_root", "no_mtp_mount", "mounted", "error"}

StartsWith(s, p) == MatchAt(s, p, 1)
Contains(s, p) == \E i \in 1..Len(s) : MatchAt(s, p, i)
is_mtp_path(path) ==
    \/ StartsWith(path, <<"m","t","p",":","/","/">>)
    \/ StartsWith(path, <<"g","v","f","s",":","/","/">>)
    \/ StartsWith(path, <<"a","f","c",":","/","/">>)
\* convert_mtp_to_local(mtp_path): "none" for None, "sub" for the folder
\* found below the mount, "mount" for the root of the mount.  sub_found says
\* whether one of the tested paths below the mount exists.
convert_mtp_to_local(mtp_path, gvfs, sub_found) ==
    IF gvfs # "mounted" THEN "none"
    ELSE IF /\ \/ Contains(mtp_path, <<"/","I","n","t","e","r","n","a","l">>)
               \/ Contains(mtp_path, <<"/","S","D">>)
            /\ sub_found
    THEN "sub"
    ELSE "mount"
\* ScannedDir without the test folder.exists() of lines 81-83
ScannedDir_NoExistsCheck(folder_path, gvfs, sub_found, exists) ==
    IF is_mtp_path(folder_path)
    THEN convert_mtp_to_local(folder_path, gvfs, sub_found)
    ELSE "local"
\* The directory get_music_files scans: "none" when it returns {} before
\* scanning, else "local", "sub" or "mount"
ScannedDir(folder_path, gvfs, sub_found, exists) ==
    IF is_mtp_path(folder_path)
    THEN convert_mtp_to_local(folder_path, gvfs, sub_found)
    ELSE IF exists THEN "local" ELSE "none"
\* get_music_files(folder_path): the keys of the returned map.  visited are
\* the files rglob yielded (all of them unless the scan raised).
get_music_files(folder_path, gvfs, sub_found, exists, visited) ==
    LET where == ScannedDir(folder_path, gvfs, sub_found, exists)
    IN  IF where = "none" THEN {}
        ELSE {IF where = "mount" THEN f.deep ELSE f.name :
                 f \in {g \in visited : StrLower(g.suffix) \in extensions}}

\* __main__, lines 171-194
DiffMain ==
    /\ pc = "diff_start"
    /\ IF argc # 3
       THEN pc' = "exited" /\ exitStatus' = 1
       ELSE pc' = "scan1" /\ exitStatus' = exitStatus
    /\ UNCHANGED <<argc, diffVars>>
    /\ UNCHANGED <<program, gitOnlyVars, timeVars, spellVars>>

ScanResult(folder, gvfs, sub_found, exists, visited) ==
    [path |-> folder.path, exists |-> exists,
     scanned |-> ScannedDir(folder.path, gvfs, sub_found, exists)]
\* compare_folders, line 120
GetMusicFiles1 ==
    /\ pc = "scan1"
    /\ \E gvfs \in GvfsStates, sub_found \in BOOLEAN, exists \in BOOLEAN,
          visited \in SUBSET Files :
          /\ files1' = get_music_files(folder1.path, gvfs, sub_found, exists, visited)
          /\ folder1' = ScanResult(folder1, gvfs, sub_found, exists, visited)
    /\ pc' = "scan2"
    /\ UNCHANGED <<argc, exitStatus, folder2, files2, only_in_1, only_in_2, in_both>>
    /\ UNCHANGED <<program, gitOnlyVars, timeVars, spellVars>>
\* compare_folders, line 123
GetMusicFiles2 ==
    /\ pc = "scan2"
    /\ \E gvfs \in GvfsStates, sub_found \in BOOLEAN, exists \in BOOLEAN,
          visited \in SUBSET Files :
          /\ files2' = get_music_files(folder2.path, gvfs, sub_found, exists, visited)
          /\ folder2' = ScanResult(folder2, gvfs, sub_found, exists, visited)
    /\ pc' = "compare"
    /\ UNCHANGED <<argc, exitStatus, folder1, files1, only_in_1, only_in_2, in_both>>
    /\ UNCHANGED <<program, gitOnlyVars, timeVars, spellVars>>
\* OnlyIn without the subtraction
OnlyIn_NoDifference(a, b) == a
\* lines 128-129: set(a.keys()) - set(b.keys())
OnlyIn(a, b) == a \ b
\* line 130: set(a.keys()) & set(b.keys())
InBoth(a, b) == a \cap b
\* compare_folders, lines 127-169
CompareFolders ==
    /\ pc = "compare"
    /\ only_in_1' = OnlyIn(files1, files2)
    /\ only_in_2' = OnlyIn(files2, files1)
    /\ in_both' = InBoth(files1, files2)
    /\ pc' = "diff_done"
    /\ exitStatus' = 0
    /\ UNCHANGED <<argc, folder1, folder2, files1, files2>>
    /\ UNCHANGED <<program, gitOnlyVars, timeVars, spellVars>>

NotScanned(p) == [path |-> p, exists |-> FALSE, scanned |-> "not yet"]
DiffIdle ==
    /\ folder1 = NotScanned(<<>>) /\ folder2 = NotScanned(<<>>)
    /\ files1 = {} /\ files2 = {} /\ only_in_1 = {} /\ only_in_2 = {} /\ in_both = {}
DiffInit ==
    /\ program = "music-diff"
    /\ pc = "diff_start" /\ argc \in 1..4 /\ exitStatus = -1
    /\ \E p1 \in FolderArgs, p2 \in FolderArgs :
          folder1 = NotScanned(p1) /\ folder2 = NotScanned(p2)
    /\ files1 = {} /\ files2 = {} /\ only_in_1 = {} /\ only_in_2 = {} /\ in_both = {}

(***************************************************************************)
(* monthly-activity.py: parse_timeline_by_month                            *)
(***************************************************************************)
MaxRows == 2   \* rows of timeline.csv

\* A field csv.DictReader leaves out of a short row is None
None == <<"None">>
Timestamps == {
    <<"2","0","2","5","-","0","6","-","1","5","T","1","0",":","0","0",":","0","0">>,
    <<"2","0","2","5","-","0","6","-","3","0","T","2","3",":","5","9",":","5","9">>,
    <<"2","0","2","5","-","0","7","-","0","1","T","0","8",":","0","0",":","0","0">> }
RecordRows ==
    {[timestamp |-> t, record_type |-> "activity", activity_type |-> a,
      distance_meters |-> d, duration_seconds |-> u] :
        t \in Timestamps, a \in {"walking", "cycling"},
        d \in {None, <<"7">>, <<"x">>}, u \in {<<>>, <<"3">>}}
    \cup
    {[timestamp |-> t, record_type |-> r, activity_type |-> "",
      distance_meters |-> d, duration_seconds |-> u] :
        t \in Timestamps, r \in {"visit", "stay"},
        d \in {None, <<"7">>}, u \in {<<>>, <<"3">>, <<"x">>}}

DigitValue(c) == CHOOSE n \in 0..9 : ToString(n) = c
\* The number a text of decimal digits stands for
RECURSIVE DecimalValue(_)
DecimalValue(text) ==
    IF text = <<>> THEN 0
    ELSE 10 * DecimalValue(SubSeq(text, 1, Len(text) - 1)) + DigitValue(text[Len(text)])
IsNumeric(text) ==
    /\ text # None /\ text # <<>>
    /\ \A i \in 1..Len(text) : text[i] \in {ToString(n) : n \in 0..9}
\* float raises TypeError on None and ValueError on '' and on non-numeric text
Raised == "raised"
float(text) == IF IsNumeric(text) THEN DecimalValue(text) ELSE Raised
\* Python's truth value of a field: None and '' are false
Truthy(field) == field # None /\ field # <<>>
\* Month keyed by the year alone
Month_Year(timestamp) == SubSeq(timestamp, 1, IF Len(timestamp) < 4 THEN Len(timestamp) ELSE 4)
\* timestamp[:7]
Month(timestamp) == SubSeq(timestamp, 1, IF Len(timestamp) < 7 THEN Len(timestamp) ELSE 7)
\* The defaultdict's factory (lines 13-19); activity_counts is itself a
\* defaultdict(int), kept as a function on the keys it holds
NewBucket ==
    [activities |-> <<>>, total_distance |-> 0, total_duration |-> 0,
     activity_counts |-> <<>>, visit_counts |-> 0]
BucketOf(data, month) == IF month \in DOMAIN data THEN data[month] ELSE NewBucket
CountOf(counts, k) == IF k \in DOMAIN counts THEN counts[k] ELSE 0
\* The function f with f[k] set to v, k added to the domain if needed
Put(f, k, v) == [x \in DOMAIN f \cup {k} |-> IF x = k THEN v ELSE f[x]]
\* Lines 35-36: the value taken for a numeric field
FieldOrZero(field) == IF Truthy(field) THEN float(field) ELSE 0
\* One of the two conversions of lines 35-36 raises on row
RowRaises(row) ==
    \/ Truthy(row.distance_meters) /\ ~IsNumeric(row.distance_meters)
    \/ Truthy(row.duration_seconds) /\ ~IsNumeric(row.duration_seconds)
\* Lines 26-32: monthly_data when the loop body has appended row to its bucket
AppendActivity(data, row) ==
    LET month == Month(row.timestamp)
        b == BucketOf(data, month)
    IN  Put(data, month, [b EXCEPT !.activities = Append(b.activities, row)])
\* AddRow with a plain else for the elif of line 44: every row that is not an
\* activity counts as a visit
AddRow_ElseVisit(data, row) ==
    LET month == Month(row.timestamp)
        b == BucketOf(data, month)
        distance == FieldOrZero(row.distance_meters)
        duration == FieldOrZero(row.duration_seconds)
        counts == IF row.record_type = "activity"
                  THEN Put(b.activity_counts, row.activity_type,
                           CountOf(b.activity_counts, row.activity_type) + 1)
                  ELSE b.activity_counts
        visits == IF row.record_type # "activity"
                  THEN b.visit_counts + 1
                  ELSE b.visit_counts
    IN  Put(data, month,
            [activities |-> Append(b.activities, row),
             total_distance |-> b.total_distance + distance,
             total_duration |-> b.total_duration + duration,
             activity_counts |-> counts,
             visit_counts |-> visits])
\* The loop body, lines 26-46: monthly_data after one row on which no
\* conversion raises
AddRow(data, row) ==
    LET month == Month(row.timestamp)
        b == BucketOf(data, month)
        distance == FieldOrZero(row.distance_meters)
        duration == FieldOrZero(row.duration_seconds)
        counts == IF row.record_type = "activity"
                  THEN Put(b.activity_counts, row.activity_type,
                           CountOf(b.activity_counts, row.activity_type) + 1)
                  ELSE b.activity_counts
        visits == IF row.record_type # "activity" /\ row.record_type = "visit"
                  THEN b.visit_counts + 1
                  ELSE b.visit_counts
    IN  Put(data, month,
            [activities |-> Append(b.activities, row),
             total_distance |-> b.total_distance + distance,
             total_duration |-> b.total_duration + duration,
             activity_counts |-> counts,
             visit_counts |-> visits])

\* One iteration of `for row in reader`; an exception of float leaves the
\* function (there is no handler) with the row appended to its bucket
ReadRow ==
    /\ pc = "tl_read" /\ nread < MaxRows
    /\ \E row \in RecordRows :
          /\ rows' = Append(rows, row)
          /\ IF RowRaises(row)
             THEN /\ monthly_data' = AppendActivity(monthly_data, row)
                  /\ pc' = "tl_error"
             ELSE /\ monthly_data' = AddRow(monthly_data, row)
                  /\ pc' = pc
    /\ nread' = nread + 1
    /\ UNCHANGED <<program, argc, exitStatus, gitOnlyVars, diffVars, spellVars>>
\* The reader is exhausted: parse_timeline_by_month returns (line 48)
EndOfFile ==
    /\ pc = "tl_read"
    /\ pc' = "tl_done"
    /\ UNCHANGED <<rows, nread, monthly_data>>
    /\ UNCHANGED <<program, argc, exitStatus, gitOnlyVars, diffVars, spellVars>>

TimeIdle == rows = <<>> /\ nread = 0 /\ monthly_data = <<>>
TimeInit == program = "monthly-activity" /\ pc = "tl_read" /\ TimeIdle

(***************************************************************************)
(* spell_check_message applied to a message and to its own output          *)
(***************************************************************************)
MaxChunks == 3   \* pieces a message is put together from

\* The pieces of the messages; the empty piece makes a leading, trailing or
\* doubled blank
Chunks == {
    <<>>,
    <<"m","a","s","t","e","r"," ","t","h","e","s","i","s">>,
    <<"M","a","s","t","e","r"," ","T","h","e","s","i","s">>,
    <<"f","i","x">>,
    <<"B","u","g">>,
    <<"b","U","G">>,
    <<"a","p","i">>,
    <<"d","a","t","e","i">>,
    <<"t","e","h">> }
Messages == {Join(cs) : cs \in SeqsUpTo(Chunks, MaxChunks) \ {<<>>}}

\* corrected = spell_check_message(message, ...), as preview_changes calls it
SpellCheck ==
    /\ pc = "sp_start"
    /\ out1' = spell_check_message(rawLang, message)
    /\ subs' = ApplyPhrases(detect_language(rawLang), message, 1, <<>>).log
    /\ pc' = "sp_once"
    /\ UNCHANGED <<message, rawLang, out2>>
    /\ UNCHANGED <<program, argc, exitStatus, gitOnlyVars, diffVars, timeVars>>
\* The corrector run again on its own output (the detector answers the same)
SpellCheckAgain ==
    /\ pc = "sp_once"
    /\ out2' = spell_check_message(rawLang, out1)
    /\ pc' = "sp_twice"
    /\ UNCHANGED <<message, rawLang, subs, out1>>
    /\ UNCHANGED <<program, argc, exitStatus, gitOnlyVars, diffVars, timeVars>>

SpellIdle == message = <<>> /\ rawLang = "en" /\ subs = <<>> /\ out1 = <<>> /\ out2 = <<>>
SpellInit ==
    /\ program = "spell_check_message"
    /\ pc = "sp_start"
    /\ message \in Messages
    /\ rawLang \in {"en", "de", "error"}
    /\ subs = <<>> /\ out1 = <<>> /\ out2 = <<>>

(***************************************************************************)
(* Specifications                                                          *)
(***************************************************************************)
GitOnlyIdle ==
    /\ pathExists = FALSE
    /\ repos = <<>> /\ ri = 0 /\ results = <<>> /\ result = NoResult /\ seen = 0
    /\ dirty = FALSE /\ commits = <<>>
    /\ changes = <<>> /\ idx = 0 /\ commit_changes = <<>> /\ pending = <<>>
    /\ decisions = <<>> /\ prompted = FALSE /\ gitlog = <<>> /\ history = <<>>
    /\ scriptFile = "none" /\ answer = NoAnswer

\* git-fix-commits.py and music-diff.py, one run of either program
Init ==
    /\ \/ GitInit /\ DiffIdle
       \/ DiffInit /\ GitOnlyIdle
    /\ TimeIdle /\ SpellIdle
Next ==
    \/ MainStart
    \/ ProcessRepository
    \/ ReadAnswer
    \/ UserChoice
    \/ UserEdit
    \/ UserConfirmEdit
    \/ FinalConfirm
    \/ RewriteCommits
    \/ AppendResult
    \/ Summary
    \/ DiffMain
    \/ GetMusicFiles1
    \/ GetMusicFiles2
    \/ CompareFolders
Spec == Init /\ [][Next]_vars

\* monthly-activity.py
InitTimeline ==
    /\ TimeInit
    /\ argc = 1 /\ exitStatus = -1 /\ GitOnlyIdle /\ DiffIdle /\ SpellIdle
NextTimeline ==
    \/ ReadRow
    \/ EndOfFile
SpecTimeline == InitTimeline /\ [][NextTimeline]_vars

\* spell_check_message
InitSpell ==
    /\ SpellInit
    /\ argc = 1 /\ exitStatus = -1 /\ GitOnlyIdle /\ DiffIdle /\ TimeIdle
NextSpell ==
    \/ SpellCheck
    \/ SpellCheckAgain
SpecSpell == InitSpell /\ [][NextSpell]_vars

(***************************************************************************)
(* Properties                                                              *)
(***************************************************************************)
\* git commands that change the history or the object store
MutatingCommands == {"filter-branch", "update-ref -d", "reflog expire", "gc"}
Ran(cmds) == \E i \in 1..Len(gitlog) : gitlog[i] \in cmds
Aborted == \E i \in 1..Len(decisions) : decisions[i] = "abort"
AtPrompt == pc \in {"choice", "chosen", "edit", "confirm", "confirmed",
                    "final", "answered"}
\* rewrite_history returned True for the current repository
Rewritten == pc = "returned" /\ result.status = "corrected"
\* The positions in changes of the proposal made for the k-th commit
ProposalsFor(k) == {j \in 1..Len(changes) : changes[j][1] = HashOf(k)}

\* C1: once a choice prompt of rewrite_history is answered with abort, the
\* history rewrite is not invoked and no commit message has changed, also
\* when changes were accepted at earlier prompts of the batch; the abort is
\* the last decision of the batch, no prompt follows it.
C1_AbortChangesNothing ==
    Aborted =>
        /\ ~Ran(MutatingCommands)
        /\ history = commits
        /\ scriptFile = "none"
        /\ ~AtPrompt /\ pc # "rewrite"
        /\ decisions[Len(decisions)] = "abort"
        /\ \A i \in 1..(Len(decisions) - 1) : decisions[i] # "abort"
        /\ result = Declined
\* C1 witness: an abort after a change was accepted at an earlier prompt
C1_AbortAfterAccept ==
    /\ Aborted
    /\ commit_changes # <<>>
    /\ decisions[1] = "accept"

\* C2: after a successful rewrite, every commit the user skipped and every
\* commit without a proposed correction carries its original message.
C2_SkippedKeepOriginal ==
    Rewritten =>
        \A k \in 1..Len(commits) :
            (\A j \in ProposalsFor(k) : decisions[j] = "skip")
                => history[k] = commits[k]

\* C3: after a successful rewrite, every commit with an approved change
\* (hash, original, new) carries exactly the approved replacement.
C3_ApprovedGetReplacement ==
    Rewritten =>
        \A j \in 1..Len(commit_changes) : \A k \in 1..Len(commits) :
            HashOf(k) = commit_changes[j][1]
                => history[k] = commit_changes[j][3] \o <<"\n">>

\* C4: only_in_1, only_in_2 and in_both are pairwise disjoint, their union is
\* keys(files1) \cup keys(files2), and each map's size is the size of in_both
\* plus the size of its own only-set.
C4_Partition ==
    pc = "diff_done" =>
        /\ only_in_1 \cap only_in_2 = {}
        /\ only_in_1 \cap in_both = {}
        /\ only_in_2 \cap in_both = {}
        /\ only_in_1 \cup only_in_2 \cup in_both = files1 \cup files2
        /\ Cardinality(files1) = Cardinality(in_both) + Cardinality(only_in_1)
        /\ Cardinality(files2) = Cardinality(in_both) + Cardinality(only_in_2)
\* C4 witness: a comparison in which none of the three sets is empty
C4_AllThreeNonEmpty ==
    /\ pc = "diff_done"
    /\ only_in_1 # {} /\ only_in_2 # {} /\ in_both # {}

\* m is the first 7 characters of timestamp
IsFirst7(m, timestamp) ==
    /\ Len(m) = (IF Len(timestamp) < 7 THEN Len(timestamp) ELSE 7)
    /\ \A i \in 1..Len(m) : m[i] = timestamp[i]
\* The number a numeric field stands for, an empty or absent one for 0
FieldValue(field) == IF field = None \/ field = <<>> THEN 0 ELSE DecimalValue(field)
\* field is empty or absent
EmptyOrAbsent(field) == field = None \/ field = <<>>
RECURSIVE SumDistance(_)
SumDistance(rs) ==
    IF rs = <<>> THEN 0 ELSE FieldValue(Head(rs).distance_meters) + SumDistance(Tail(rs))
RECURSIVE SumDuration(_)
SumDuration(rs) ==
    IF rs = <<>> THEN 0 ELSE FieldValue(Head(rs).duration_seconds) + SumDuration(Tail(rs))
\* The rows read so far whose timestamp starts with m
RowsOfMonth(m) == SelectSeq(rows, LAMBDA r : IsFirst7(m, r.timestamp))

\* C5: every row read is in the bucket keyed by the first 7 characters of its
\* timestamp, and each bucket's total_distance and total_duration are the
\* sums of the distance_meters and duration_seconds of exactly its rows, an
\* empty or absent field counting 0; when the parse ends with an exception,
\* the row it ends on has a field that is neither empty nor absent.
C5_BucketTotals ==
    /\ \A i \in 1..Len(rows) :
          \E m \in DOMAIN monthly_data : IsFirst7(m, rows[i].timestamp)
    /\ \A m \in DOMAIN monthly_data :
          /\ RowsOfMonth(m) # <<>>
          /\ monthly_data[m].activities = RowsOfMonth(m)
    /\ pc # "tl_error" =>
          \A m \in DOMAIN monthly_data :
              /\ monthly_data[m].total_distance = SumDistance(RowsOfMonth(m))
              /\ monthly_data[m].total_duration = SumDuration(RowsOfMonth(m))
    /\ pc = "tl_error" =>
          LET row == rows[Len(rows)]
          IN  \/ ~EmptyOrAbsent(row.distance_meters) /\ ~IsNumeric(row.distance_meters)
              \/ ~EmptyOrAbsent(row.duration_seconds) /\ ~IsNumeric(row.duration_seconds)
\* C5 witness: the file is read, and one bucket holds a row without a distance
\* and a row with one, the other bucket key being absent
C5_MixedBucket ==
    /\ pc = "tl_done"
    /\ \E m \in DOMAIN monthly_data :
          LET b == monthly_data[m]
          IN  /\ Len(b.activities) = 2
              /\ b.activities[1].distance_meters = None
              /\ b.activities[1].duration_seconds = <<>>
              /\ b.activities[2].distance_meters = <<"7">>
              /\ b.activities[1].timestamp # b.activities[2].timestamp
              /\ b.total_distance = 7

\* C6: spell_check_message run on its own output returns that output.
C6_Idempotent == pc = "sp_twice" => out2 = out1

ThesisPhrases == {
    <<"m","a","s","t","e","r"," ","t","h","e","s","i","s">>,
    <<"b","a","c","h","e","l","o","r"," ","t","h","e","s","i","s">> }
\* C7: for every substituted "master thesis" / "bachelor thesis" span, the
\* first letter of the inserted text is upper case exactly if the first
\* letter of the matched span is.
C7_PhraseKeepsFirstCase ==
    \A i \in 1..Len(subs) :
        StrLower(subs[i].matched) \in ThesisPhrases
            => (IsUpperCh(subs[i].inserted[1]) <=> IsUpperCh(subs[i].matched[1]))

\* No correction rule fires on msg: no phrase pattern matches and every token
\* is emitted as it is
NoRuleFires(raw, msg) ==
    LET lang == detect_language(raw)
        words == Split(msg)
    IN  /\ ApplyPhrases(lang, msg, 1, <<>>).log = <<>>
        /\ \A k \in 1..Len(words) : CorrectWord(lang, k - 1, words[k]) = words[k]
\* C8: a message on which no correction rule fires is returned unchanged,
\* character for character.
C8_NoRuleUnchanged ==
    (pc \in {"sp_once", "sp_twice"} /\ NoRuleFires(rawLang, message)) => out1 = message

\* The number of command-line arguments is not one the program accepts
ArgsInvalid ==
    \/ program = "git-fix-commits" /\ argc < 2
    \/ program = "music-diff" /\ argc # 3
RootMissing == program = "git-fix-commits" /\ ~pathExists
Terminated == pc \in {"exited", "done", "diff_done"}
C10_SkippedWithReason ==
    /\ (pc = "returned" /\ (dirty \/ commits = <<>>)) =>
          /\ result = Result(repos[ri], "skipped",
                             IF dirty THEN "dirty working tree" ELSE "no commits",
                             NoCount)
          /\ ~prompted
          /\ ~Ran(MutatingCommands)
          /\ history = commits
    /\ (AtPrompt \/ pc = "rewrite") => (~dirty /\ commits # <<>>)
    /\ pc \in {"loop", "done"} => Len(results) = ri - 1
    /\ pc = "returned" => Len(results) = ri - 1 /\ ri <= Len(repos)
    /\ pc = "done" =>
          /\ Len(results) = Len(repos)
          /\ \A k \in 1..Len(repos) : results[k].repo = repos[k]
\* C10 witness: a run that skipped a dirty repository and then a repository
\* without commits, and ended with both results
C10_SkippedThenContinued ==
    /\ pc = "done"
    /\ Len(results) = 2
    /\ results[1].status = "skipped" /\ results[1].reason = "dirty working tree"
    /\ results[2].status = "skipped" /\ results[2].reason = "no commits"

\* rewrite_commits_with_script has returned False for the current repository
\* (lines 401-404): filter-branch is the last git command run on it
FilterJustFailed ==
    /\ program = "git-fix-commits" /\ pc = "returned"
    /\ gitlog # <<>> /\ gitlog[Len(gitlog)] = "filter-branch"
\* C11: when git filter-branch exits with a nonzero status the run stops: no
\* further git command is run on that repository, and main does not come back
\* to the head of its loop with a later repository to process.
C11_FailureStopsRun ==
    [][FilterJustFailed =>
          /\ gitlog' = gitlog \/ gitlog' = <<>>
          /\ ~(pc' = "loop" /\ ri' <= Len(repos'))]_vars

\* What rewrite_history records (lines 466-469) when get_user_choice_for_commit
\* returns ('accept', message) for the change at idx
Recorded(new_message) ==
    IF new_message # changes[idx][2]
    THEN Append(commit_changes, <<changes[idx][1], changes[idx][2], new_message>>)
    ELSE commit_changes
Yes == {<<"y">>, <<"y","e","s">>}
\* One step of get_user_choice_for_commit seen from rewrite_history: a decision
\* is made only by one of the four outcomes, everything else leads back to the
\* choice prompt and decides nothing
ChoiceStep ==
    /\ Len(decisions') > Len(decisions) =>
          /\ \E action \in {"accept", "skip", "abort"} :
                /\ decisions' = Append(decisions, action)
                /\ \/ /\ pc = "chosen" /\ answer \in Yes /\ action = "accept"
                      /\ commit_changes' = Recorded(changes[idx][3])
                   \/ /\ pc = "chosen" /\ answer \in {<<"s">>, <<"s","k","i","p">>}
                      /\ action = "skip"
                      /\ commit_changes' = commit_changes
                   \/ /\ pc = "confirmed" /\ answer \in Yes /\ action = "accept"
                      /\ pending # <<>>
                      /\ commit_changes' = Recorded(pending)
                   \/ /\ pc = "chosen" /\ answer \in {<<"a">>, <<"a","b","o","r","t">>}
                      /\ action = "abort"
                      /\ commit_changes' = commit_changes
    /\ (pc = "chosen" /\ answer \notin Yes \cup {<<"s">>, <<"s","k","i","p">>,
                                               <<"e">>, <<"e","d","i","t">>,
                                               <<"a">>, <<"a","b","o","r","t">>}) =>
          /\ pc' = "choice"
          /\ decisions' = decisions /\ commit_changes' = commit_changes
    /\ pc = "edit" =>
          /\ \/ pc' = "confirm" /\ pending' # <<>>
             \/ pc' = "choice" /\ pending' = <<>>
          /\ decisions' = decisions /\ commit_changes' = commit_changes
    /\ (pc = "confirmed" /\ answer \notin Yes) =>
          /\ pc' = "choice"
          /\ decisions' = decisions /\ commit_changes' = commit_changes
\* C12: get_user_choice_for_commit returns only accept with the suggested
\* message (y/yes), skip (s/skip), accept with a non-empty edited message that
\* was confirmed with y/yes, or abort (a/abort); any other answer, an empty
\* edit and an unconfirmed edit lead back to the choice prompt with nothing
\* decided.  An accepted message is never empty.
C12_ChoiceOutcomes ==
    /\ [][ChoiceStep]_vars
    /\ [](\A k \in 1..Len(commit_changes) : commit_changes[k][3] # <<>>)
\* C12 witness: an edited message was confirmed and is recorded in place of
\* the suggested one
C12_EditAccepted ==
    /\ program = "git-fix-commits"
    /\ decisions = <<"accept">>
    /\ Len(commit_changes) = 1
    /\ commit_changes[1][3] = <<"F","i","x"," ","i","t">>
    /\ commit_changes[1][3] # changes[1][3]

\* A folder argument that names no existing folder (lines 81-83), or an
\* MTP/GVFS path for which convert_mtp_to_local returned None (lines 71-79)
Unavailable(folder) ==
    IF is_mtp_path(folder.path) THEN folder.scanned = "none" ELSE ~folder.exists
\* C13: for a folder that does not exist, or an MTP/GVFS path that cannot be
\* resolved, get_music_files returns an empty map and the comparison still
\* completes: every file of the other folder is only in that other folder and
\* nothing is in both.
C13_MissingFolderIsEmpty ==
    /\ (pc \in {"scan2", "compare", "diff_done"} /\ Unavailable(folder1)) => files1 = {}
    /\ (pc \in {"compare", "diff_done"} /\ Unavailable(folder2)) => files2 = {}
    /\ (pc = "diff_done" /\ Unavailable(folder1)) =>
          /\ only_in_2 = files2 /\ only_in_1 = {} /\ in_both = {}
          /\ exitStatus = 0
    /\ (pc = "diff_done" /\ Unavailable(folder2)) =>
          /\ only_in_1 = files1 /\ only_in_2 = {} /\ in_both = {}
          /\ exitStatus = 0
\* C13 witness: a finished comparison of an unresolved MTP path with a folder
\* that holds music files
C13_UnresolvedAgainstFiles ==
    /\ program = "music-diff" /\ pc = "diff_done"
    /\ is_mtp_path(folder1.path) /\ Unavailable(folder1)
    /\ ~Unavailable(folder2)
    /\ Cardinality(files2) >= 2 /\ only_in_2 = files2

\* The tokens the word loop runs over (line 214) for the message checked
TokensIn == Split(ApplyPhrases(detect_language(rawLang), message, 1, <<>>).text)
\* The tokens of the returned message
TokensOut == Split(out1)
\* A token the loop passes over unchanged for its special characters
\* (lines 219-221) or for being all upper case (lines 224-226)
Skipped(word) ==
    \/ \E k \in 1..Len(word) : word[k] \in SpecialChars
    \/ StrIsUpper(word) /\ Len(word) > 1
\* C14: for English, every non-first token that is not skipped and whose
\* lower-cased core is an English common noun of the list and not an
\* always-capitalized term is emitted entirely in lower case, whatever mix of
\* cases it was written in.
C14_CommonNounsLowered ==
    (pc \in {"sp_once", "sp_twice"} /\ detect_language(rawLang) = "en") =>
        \A k \in 2..Len(TokensIn) :
            LET clean_word == Strip(TokensIn[k], StripChars)
            IN  (/\ ~Skipped(TokensIn[k])
                 /\ StrLower(clean_word) \in lowercase_words_en \ always_capitalized)
                => Strip(TokensOut[k], StripChars) = StrLower(clean_word)

\* C15: when the first token (after the phrase substitutions) has no special
\* character, is not all upper case and has a non-empty core, the core of the
\* first token of the result does not begin with a lower-case letter, and the
\* token went through neither the word lists nor the spelling correction: it
\* differs from the input token in case only, and not at all when its core
\* already began with something else than a lower-case letter.
C15_FirstTokenCapitalized ==
    (/\ pc \in {"sp_once", "sp_twice"}
     /\ TokensIn # <<>>
     /\ ~Skipped(TokensIn[1])
     /\ Strip(TokensIn[1], StripChars) # <<>>)
    => LET clean_word == Strip(TokensIn[1], StripChars)
           emitted == Strip(TokensOut[1], StripChars)
       IN  /\ emitted # <<>> /\ ~IsLowerCh(emitted[1])
           /\ StrLower(TokensOut[1]) = StrLower(TokensIn[1])
           /\ ~IsLowerCh(clean_word[1]) => TokensOut[1] = TokensIn[1]
\* C15 witness: the misspelt first token 'teh' comes out as 'Teh', not as 'The'
C15_FirstTokenNotCorrected ==
    /\ program = "spell_check_message" /\ pc = "sp_once"
    /\ rawLang = "en"
    /\ TokensIn # <<>> /\ TokensOut # <<>>
    /\ TokensIn[1] = <<"t","e","h">>
    /\ TokensOut[1] = <<"T","e","h">>

\* Every recorded change replaces a message by a different one (line 467)
AllDiffer == \A k \in 1..Len(commit_changes) : commit_changes[k][3] # commit_changes[k][2]
\* One step of rewrite_history around the final confirmation (lines 486-493)
FinalStep ==
    /\ (pc' = "rewrite" /\ pc # "rewrite") =>
          pc = "answered" /\ answer = <<"y","e","s">>
    /\ (pc = "answered" /\ answer # <<"y","e","s">>) =>
          /\ pc' = "returned" /\ result' = Declined
          /\ gitlog' = gitlog /\ history' = history
\* C16: rewrite_commits_with_script is invoked only when the user did not
\* abort, at least one accepted message differs from its original (an accepted
\* edit equal to the original is not recorded) and the final answer is exactly
\* 'yes'; otherwise rewrite_history returns False and no history-mutating git
\* command is run.
C16_RewriteOnlyWhenApproved ==
    /\ [](pc = "rewrite" =>
             /\ answer = <<"y","e","s">>
             /\ ~Aborted /\ commit_changes # <<>> /\ AllDiffer)
    /\ []((pc = "returned" /\ Ran(MutatingCommands)) =>
             ~Aborted /\ commit_changes # <<>> /\ AllDiffer)
    /\ []((pc = "returned" /\ ~dirty /\ changes # <<>>
               /\ (Aborted \/ commit_changes = <<>>)) =>
             /\ result = Declined
             /\ ~Ran(MutatingCommands) /\ history = commits)
    /\ [][FinalStep]_vars
\* C16 witness: the rewrite starts after two accepted messages of which one, an
\* edit equal to the original, was not recorded
C16_RewriteAfterUnrecordedEdit ==
    /\ program = "git-fix-commits" /\ pc = "rewrite"
    /\ decisions = <<"accept", "accept">>
    /\ Len(commit_changes) = 1

\* The place of a git command in the order of rewrite_commits_with_script
\* (lines 394-434); 0 for the commands of process_repository
StepOf(cmd) ==
    CASE cmd = "filter-branch" -> 1
      [] cmd = "for-each-ref" -> 2
      [] cmd = "update-ref -d" -> 3
      [] cmd = "reflog expire" -> 4
      [] cmd = "gc" -> 5
      [] OTHER -> 0
\* rewrite_commits_with_script was called for the current repository and is over
RewriteOver == pc \in {"returned", "crashed"} /\ Ran({"filter-branch"})
\* The commands on record are in the order of the function, each at most once;
\* those after filter-branch were run only when it returned 0, and then
\* for-each-ref, reflog expire and gc were all run
StepsInOrder ==
    /\ \A i, j \in 1..Len(gitlog) : i < j => StepOf(gitlog[i]) < StepOf(gitlog[j])
                                             \/ StepOf(gitlog[j]) = 0
    /\ Ran({"for-each-ref", "update-ref -d", "reflog expire", "gc"}) =>
          /\ Ran({"filter-branch"})
          /\ pc = "returned" /\ result.status = "corrected"
    /\ (pc = "returned" /\ result.status = "corrected") =>
          /\ Ran({"for-each-ref"}) /\ Ran({"reflog expire"}) /\ Ran({"gc"})
    /\ Ran({"update-ref -d"}) => history # commits
C18_CountIsApproved ==
    Rewritten => result.changes = Len(commit_changes)

\* The sum of the values of a counter (activity_counts)
RECURSIVE SumCounts(_)
SumCounts(counts) ==
    IF DOMAIN counts = {} THEN 0
    ELSE LET k == CHOOSE x \in DOMAIN counts : TRUE
         IN  counts[k] + SumCounts([x \in DOMAIN counts \ {k} |-> counts[x]])
\* The sum of the sizes of the buckets with keys in ms
RECURSIVE SumSizes(_)
SumSizes(ms) ==
    IF ms = {} THEN 0
    ELSE LET m == CHOOSE x \in ms : TRUE
         IN  Len(monthly_data[m].activities) + SumSizes(ms \ {m})
\* The number of rows of rs with record_type 'visit' or 'activity'
Counted(rs) == Len(SelectSeq(rs, LAMBDA r : r.record_type \in {"visit", "activity"}))
\* C19: every row read is in the activities list of exactly one bucket (the
\* bucket sizes sum to the number of rows), and once the rows read are
\* processed, in each bucket visit_counts plus the sum of the activity_counts
\* is the number of its rows with record_type 'visit' or 'activity', so never
\* more than the bucket holds; a row of another record_type adds to the
\* totals and to no count.
C19_CountsMatchRows ==
    /\ SumSizes(DOMAIN monthly_data) = Len(rows)
    /\ \A i \in 1..Len(rows) :
          Cardinality({m \in DOMAIN monthly_data :
                          \E k \in 1..Len(monthly_data[m].activities) :
                              /\ monthly_data[m].activities[k] = rows[i]
                              /\ IsFirst7(m, rows[i].timestamp)}) = 1
    /\ pc # "tl_error" =>
          \A m \in DOMAIN monthly_data :
              LET b == monthly_data[m]
              IN  /\ b.visit_counts + SumCounts(b.activity_counts) = Counted(b.activities)
                  /\ b.visit_counts + SumCounts(b.activity_counts) <= Len(b.activities)
                  /\ b.visit_counts =
                        Len(SelectSeq(b.activities, LAMBDA r : r.record_type = "visit"))
                  /\ \A a \in DOMAIN b.activity_counts :
                        b.activity_counts[a] =
                           Len(SelectSeq(b.activities,
                                         LAMBDA r : /\ r.record_type = "activity"
                                                    /\ r.activity_type = a))
\* C19 witness: the file is read, and one bucket holds a visit and a row of
\* another record type with a distance, which is in the total and in no count
C19_StayNotCounted ==
    /\ pc = "tl_done"
    /\ \E m \in DOMAIN monthly_data :
          LET b == monthly_data[m]
          IN  /\ Len(b.activities) = 2
              /\ b.activities[1].record_type = "visit"
              /\ b.activities[2].record_type = "stay"
              /\ b.activities[2].distance_meters = <<"7">>
              /\ b.total_distance >= 7
              /\ b.visit_counts = 1 /\ SumCounts(b.activity_counts) = 0

====
